---- MODULE Spec2Model ----
\* A model of the Refresher of github.com/adrianosela/refresh: the background
\* task started by NewRefresher (refresher.start), the callers of
\* WaitForInitialValue and Stop, the clock, and the collaborators
\* (refresh function, strategy, storage) as nondeterministic outcomes.
EXTENDS Integers, FiniteSets, Sequences, TLC

\* ---------------------------------------------------------------- bounds
MaxTime == 2        \* the clock runs over 0..MaxTime
MaxTimeout == 1     \* timeouts handed to WaitForInitialValue: 0..MaxTimeout
MaxAhead == 1       \* a strategy schedules at most this far after now
MaxRetryDelay == 2  \* retryDelay is configured in 1..MaxRetryDelay
MaxCalls == 2       \* refresh-function calls made by one task
NumWaiters == 2     \* goroutines that call WaitForInitialValue
TicksPerSecond == 3 \* resolution of the instants handed to a strategy
MaxInstant == 9     \* a strategy sees instants 0..MaxInstant (in ticks)
MaxStatic == 2      \* static durations are configured in -MaxStatic..MaxStatic (ticks)
MaxListLen == 2     \* timestamps handed to NewScheduled
RandSteps == 2      \* rand.Float64() yields k/RandSteps, 0 <= k < RandSteps
WordBits == 6       \* width of the signed word that counts seconds (scaled down from 64)
unixToInternal == 4 \* seconds from the internal epoch to the Unix epoch (scaled down)

Waiters == 1..NumWaiters

\* ------------------------------------------------------- values and time
\* current: nil, line 127
Nil == 0
\* the Refreshable a storage.Get hands back (written by an earlier process)
PriorValue == MaxCalls + 1
\* no failed steady-state refresh is pending a retry (before every clock value)
NoTime == Nil - 1

VARIABLES
    now,          \* time.Now()
    hasStorage,   \* r.storage != nil
    retryDelay,   \* r.retryDelay
    current,      \* r.current (Nil, or the identity of a Refreshable)
    refreshAt,    \* r.refreshAt
    cancelled,    \* refreshCtx is done (refreshCtxCancel was called)
    pc,           \* where the background task (start) is
    sendVal,      \* the error the task is sending on initializationResult
    closed,       \* initializationResult is closed
    timerAt,      \* the instant refreshTimer is armed for
    wpc,          \* where each WaitForInitialValue caller is
    wtimer,       \* what is left of each caller's time.After(timeout)
    wres,         \* what each call returned
    calls,        \* refresh-function calls begun
    inflight,     \* refresh-function calls in progress
    firstOutcome, \* outcome of the first acquisition attempt
    sends,        \* values handed over on initializationResult
    sentErrFrom,  \* the path that sent a non-nil error
    acquired,     \* some acquisition (adoption or refresh) has succeeded
    lastErr,      \* the latest call of the refresh function returned an error
    lastFailAt,   \* when the last steady-state refresh failed (NoTime after a success)
    initFailAt,   \* when the initial acquisition failed (NoTime once a later call returned)
    consulted,    \* the task's latest step called refreshStrategy.GetRefreshAt
    spawned,      \* the go statements the task's latest step executed
    spawnedArg,   \* the Refreshable those goroutines were handed (Nil: none)
    lastStrategy, \* what GetRefreshAt returned in the task's latest step (NoTime: not called)
    pendingStores,\* store goroutines started whose storage.Put has not begun
    puttingStores,\* store goroutines inside storage.Put
    stored,       \* the Refreshable the storage holds
    storeSpawned, \* the go statements the latest step of a store goroutine executed
    call          \* one call of a strategy's GetRefreshAt: its inputs and its result

vars == <<now, hasStorage, retryDelay, current, refreshAt, cancelled, pc, sendVal,
          closed, timerAt, wpc, wtimer, wres, calls, inflight, firstOutcome,
          sends, sentErrFrom, acquired, lastErr, lastFailAt, initFailAt, consulted,
          spawned,
          spawnedArg, lastStrategy, pendingStores, puttingStores, stored,
          storeSpawned, call>>

config == <<hasStorage, retryDelay, call>>
waiterVars == <<wpc, wtimer, wres>>
taskVars == <<current, refreshAt, pc, sendVal, closed, timerAt, calls, inflight,
              firstOutcome, sends, sentErrFrom, acquired, lastErr, lastFailAt,
              initFailAt,              consulted, spawned, spawnedArg, lastStrategy>>
storeVars == <<pendingStores, puttingStores, stored, storeSpawned>>
refresherVars == <<now, hasStorage, retryDelay, cancelled, taskVars, waiterVars,
                   storeVars>>

\* ------------------------------------------------------------- helpers
\* refreshStrategy.GetRefreshAt: any total function of the value and the
\* clock; its possible results at this instant.
GetRefreshAt == {t \in 0..(now + MaxAhead) : t >= now - 1}

\* time.NewTimer(d) / Timer.Reset(d): the instant the timer fires; a
\* duration that is not positive fires at once.
When(d) == IF d <= 0 THEN now ELSE now + d

\* time.Until(r.GetNextRefreshTime())
UntilNextRefresh == refreshAt - now

\* a freshness test that also keeps a value due exactly now
StillFreshOrDue(t) == now <= t

\* line 237: time.Now().Before(refreshAt)
StillFresh(t) == now < t

\* line 246 without the check of line 245
NeedsFreshAlways == TRUE

\* line 245: the refresher has no value at this point
NeedsFresh == current = Nil

\* a refresh that stores whatever refreshFunc returned, error or not
ValueAfterRefreshAlways(ok, newValue) == newValue

\* refresh, lines 202-207: the value held after refreshFunc returned
ValueAfterRefresh(ok, newValue) == IF ok THEN newValue ELSE current

\* a refresh that moves the schedule to the retry instant on an error
RefreshAtAfterRefreshRetry(ok, t) == IF ok THEN t ELSE now + retryDelay

\* refresh, lines 202-207: the schedule held after refreshFunc returned
RefreshAtAfterRefresh(ok, t) == IF ok THEN t ELSE refreshAt

\* an update that installs the new value under the schedule of the old one
updateValueKeepSchedule(newValue, t) == <<newValue, refreshAt>>

\* updateValue, lines 193-198: current and refreshAt are written in one
\* critical section of the write lock; the pair it leaves
updateValue(newValue, t) == <<newValue, t>>

\* callbacks handed the value read before the refresh
CallbackArgStale(newCurrent) == current

\* line 266: newValue := r.GetCurrent(), read after refresh returned
CallbackArg(newCurrent) == newCurrent

\* a failed refresh rearmed by the schedule instead of the retry delay
RetryTimerBySchedule == When(UntilNextRefresh)

\* line 260: refreshTimer.Reset(r.retryDelay)
RetryTimer == When(retryDelay)

\* a select without its timer case
TimedOutNever(w) == FALSE

\* line 163: the caller's time.After(timeout) has fired
TimedOut(w) == wtimer[w] = 0

\* ------------------------------------------------------------------ Init
\* NewRefresher, lines 124-153: the state when it returns, the task started
\* but not yet run.
InitRefresher ==
    /\ now = 0
    /\ hasStorage \in BOOLEAN
    /\ retryDelay \in 1..MaxRetryDelay
    /\ current = Nil
    /\ refreshAt = 0
    /\ cancelled = FALSE
    /\ pc = "start"
    /\ sendVal = "none"
    /\ closed = FALSE
    /\ timerAt = 0
    /\ wpc = [w \in Waiters |-> "idle"]
    /\ wtimer = [w \in Waiters |-> 0]
    /\ wres = [w \in Waiters |-> "none"]
    /\ calls = 0
    /\ inflight = 0
    /\ firstOutcome = "none"
    /\ sends = 0
    /\ sentErrFrom = "none"
    /\ acquired = FALSE
    /\ lastErr = FALSE
    /\ lastFailAt = NoTime
    /\ initFailAt = NoTime
    /\ consulted = FALSE
    /\ spawned = {}
    /\ spawnedArg = Nil
    /\ lastStrategy = NoTime
    /\ pendingStores = {}
    /\ puttingStores = {}
    /\ stored = IF hasStorage THEN PriorValue ELSE Nil
    /\ storeSpawned = {}

\* no strategy of the strategies package is under study
NoCall == [variant |-> "none", now |-> 0, issuedAt |-> 0, expiresAt |-> 0,
           cfg |-> <<>>, result |-> 0]

Init == InitRefresher /\ call = NoCall

\* ------------------------------------------------------------- the clock
Tick ==
    /\ now < MaxTime
    /\ now' = now + 1
    /\ wtimer' = [w \in Waiters |-> IF wtimer[w] > 0 THEN wtimer[w] - 1 ELSE 0]
    /\ UNCHANGED <<config, storeVars, cancelled, taskVars, wpc, wres>>

\* ------------------------------------------------------------------ Stop
\* Stop, lines 181-183
Stop ==
    /\ ~cancelled
    /\ cancelled' = TRUE
    /\ UNCHANGED <<now, config, storeVars, taskVars, waiterVars>>

\* ------------------------------------------------- the background task
\* what a step of the task that calls no strategy and starts no goroutine
\* leaves in the two records of its latest step
Quiet == consulted' = FALSE /\ spawned' = {} /\ spawnedArg' = Nil /\ lastStrategy' = NoTime

\* start, lines 226-230 and 245-246: with storage, storage.Get is called;
\* without, current is nil and the refresh function is called.
Start ==
    /\ pc = "start"
    /\ IF hasStorage
       THEN /\ pc' = "get"
            /\ UNCHANGED <<calls, inflight>>
       ELSE /\ pc' = "refresh0"
            /\ calls' = calls + 1
            /\ inflight' = inflight + 1
    /\ Quiet
    /\ UNCHANGED <<now, config, storeVars, cancelled, waiterVars, current, refreshAt, sendVal,
                   closed, timerAt, firstOutcome, sends, sentErrFrom, acquired,
                   lastErr, lastFailAt, initFailAt>>

\* start, lines 230-232: storage.Get returned an error
GetFail ==
    /\ pc = "get"
    /\ pc' = "check"
    /\ consulted' = FALSE
    /\ spawned' = {"onStorageReadFailure"}
    /\ spawnedArg' = Nil
    /\ lastStrategy' = NoTime
    /\ UNCHANGED <<now, config, storeVars, cancelled, waiterVars, current, refreshAt, sendVal,
                   closed, timerAt, calls, inflight, firstOutcome, sends, sentErrFrom,
                   acquired, lastErr, lastFailAt, initFailAt>>

\* start, lines 233-240: storage.Get returned a value; it is adopted when
\* now is before the strategy's result, and then nil is sent (line 239).
GetOk ==
    /\ pc = "get"
    /\ \E t \in GetRefreshAt :
         /\ lastStrategy' = t
         /\ IF StillFresh(t)
            THEN /\ current' = updateValue(PriorValue, t)[1]
                 /\ refreshAt' = updateValue(PriorValue, t)[2]
                 /\ pc' = "sendStored"
                 /\ sendVal' = "nil"
                 /\ firstOutcome' = "ok"
                 /\ acquired' = TRUE
            ELSE /\ pc' = "check"
                 /\ UNCHANGED <<current, refreshAt, sendVal, firstOutcome, acquired>>
    /\ consulted' = TRUE
    /\ spawned' = {}
    /\ spawnedArg' = Nil
    /\ UNCHANGED <<now, config, storeVars, cancelled, waiterVars, closed, timerAt, calls,
                   inflight, sends, sentErrFrom, lastErr, lastFailAt, initFailAt>>

\* start, lines 245-246: without a value the refresh function is called
CheckCurrent ==
    /\ pc = "check"
    /\ IF NeedsFresh
       THEN /\ pc' = "refresh0"
            /\ calls' = calls + 1
            /\ inflight' = inflight + 1
       ELSE /\ pc' = "close"
            /\ UNCHANGED <<calls, inflight>>
    /\ Quiet
    /\ UNCHANGED <<now, config, storeVars, cancelled, waiterVars, current, refreshAt, sendVal,
                   closed, timerAt, firstOutcome, sends, sentErrFrom, acquired,
                   lastErr, lastFailAt, initFailAt>>

\* refresh (lines 201-208) called from line 246: the refresh function
\* returns; its outcome is then to be sent on initializationResult.
InitRefreshReturn ==
    /\ pc = "refresh0"
    /\ \E ok \in BOOLEAN, t \in GetRefreshAt :
         /\ current' = ValueAfterRefresh(ok, IF ok THEN calls ELSE Nil)
         /\ refreshAt' = RefreshAtAfterRefresh(ok, t)
         /\ sendVal' = IF ok THEN "nil" ELSE "err"
         /\ firstOutcome' = IF firstOutcome = "none"
                            THEN (IF ok THEN "ok" ELSE "err")
                            ELSE firstOutcome
         /\ acquired' = (acquired \/ ok)
         /\ lastErr' = ~ok
         /\ consulted' = ok
         /\ lastStrategy' = IF ok THEN t ELSE NoTime
         /\ initFailAt' = IF ok THEN NoTime ELSE now
    /\ spawned' = {}
    /\ spawnedArg' = Nil
    /\ pc' = "sendInit"
    /\ inflight' = inflight - 1
    /\ UNCHANGED <<now, config, storeVars, cancelled, waiterVars, closed, timerAt, calls, sends,
                   sentErrFrom, lastFailAt>>

\* start, lines 249-251: close(r.initializationResult), time.NewTimer
CloseInit ==
    /\ pc = "close"
    /\ closed' = TRUE
    /\ timerAt' = When(UntilNextRefresh)
    /\ pc' = "loop"
    /\ Quiet
    /\ UNCHANGED <<now, config, storeVars, cancelled, waiterVars, current, refreshAt, sendVal,
                   calls, inflight, firstOutcome, sends, sentErrFrom, acquired,
                   lastErr, lastFailAt, initFailAt>>

\* start, lines 256-257: case <-ctx.Done()
StopTask ==
    /\ pc = "loop"
    /\ cancelled
    /\ pc' = "done"
    /\ Quiet
    /\ UNCHANGED <<now, config, storeVars, cancelled, waiterVars, current, refreshAt, sendVal,
                   closed, timerAt, calls, inflight, firstOutcome, sends, sentErrFrom,
                   acquired, lastErr, lastFailAt, initFailAt>>

\* a loop that runs refresh in a goroutine of its own and keeps selecting
TimerFireAsync ==
    /\ pc = "loop"
    /\ now >= timerAt
    /\ calls < MaxCalls
    /\ calls' = calls + 1
    /\ inflight' = inflight + 1
    /\ Quiet
    /\ UNCHANGED <<now, config, storeVars, cancelled, waiterVars, current, refreshAt, pc, sendVal,
                   closed, timerAt, firstOutcome, sends, sentErrFrom, acquired,
                   lastErr, lastFailAt, initFailAt>>

\* start, lines 258-259: case <-refreshTimer.C, the refresh function is called
TimerFire ==
    /\ pc = "loop"
    /\ now >= timerAt
    /\ calls < MaxCalls
    /\ pc' = "refreshing"
    /\ calls' = calls + 1
    /\ inflight' = inflight + 1
    /\ Quiet
    /\ UNCHANGED <<now, config, storeVars, cancelled, waiterVars, current, refreshAt, sendVal,
                   closed, timerAt, firstOutcome, sends, sentErrFrom, acquired,
                   lastErr, lastFailAt, initFailAt>>

\* start, lines 259-268: refresh returned in the steady-state loop; on an
\* error the timer is reset to the retry delay and onRefreshFailure started,
\* otherwise the timer is reset to the new schedule and onRefreshSuccess and
\* store are started.
SteadyRefreshReturn ==
    /\ pc = "refreshing"
    /\ \E ok \in BOOLEAN, t \in GetRefreshAt :
         /\ current' = ValueAfterRefresh(ok, IF ok THEN calls ELSE Nil)
         /\ refreshAt' = RefreshAtAfterRefresh(ok, t)
         /\ timerAt' = IF ok THEN When(RefreshAtAfterRefresh(ok, t) - now) ELSE RetryTimer
         /\ acquired' = (acquired \/ ok)
         /\ lastErr' = ~ok
         /\ lastFailAt' = IF ok THEN NoTime ELSE now
         /\ initFailAt' = NoTime
         /\ consulted' = ok
         /\ lastStrategy' = IF ok THEN t ELSE NoTime
         /\ spawned' = IF ok THEN {"onRefreshSuccess", "store"} ELSE {"onRefreshFailure"}
         /\ spawnedArg' = IF ok THEN CallbackArg(ValueAfterRefresh(ok, calls)) ELSE Nil
         /\ pendingStores' = IF ok /\ hasStorage
                              THEN pendingStores \cup {CallbackArg(ValueAfterRefresh(ok, calls))}
                              ELSE pendingStores
    /\ pc' = "loop"
    /\ inflight' = inflight - 1
    /\ UNCHANGED <<now, config, cancelled, waiterVars, sendVal, closed, calls,
                   firstOutcome, sends, sentErrFrom, puttingStores, stored, storeSpawned>>

\* ---------------------------------------------------- store goroutines
\* store, lines 211-215: a goroutine started at line 268 calls storage.Put
\* (without storage it returns at once and is not kept)
PutBegin(v) ==
    /\ v \in pendingStores
    /\ pendingStores' = pendingStores \ {v}
    /\ puttingStores' = puttingStores \cup {v}
    /\ storeSpawned' = {}
    /\ UNCHANGED <<now, config, cancelled, taskVars, waiterVars, stored>>

\* store, lines 215-219: storage.Put returned nil
PutOk(v) ==
    /\ v \in puttingStores
    /\ puttingStores' = puttingStores \ {v}
    /\ stored' = v
    /\ storeSpawned' = {}
    /\ UNCHANGED <<now, config, cancelled, taskVars, waiterVars, pendingStores>>

\* a store that drops the error of storage.Put
PutFailSilent(v) ==
    /\ v \in puttingStores
    /\ puttingStores' = puttingStores \ {v}
    /\ storeSpawned' = {}
    /\ UNCHANGED <<now, config, cancelled, taskVars, waiterVars, pendingStores, stored>>

\* store, lines 215-218: storage.Put returned an error
PutFail(v) ==
    /\ v \in puttingStores
    /\ puttingStores' = puttingStores \ {v}
    /\ storeSpawned' = {"onStorageWriteFailure"}
    /\ UNCHANGED <<now, config, cancelled, taskVars, waiterVars, pendingStores, stored>>

\* --------------------------------------------- WaitForInitialValue callers
\* WaitForInitialValue, lines 158-163: with a value present the call returns
\* nil; otherwise the select is entered and time.After(timeout) armed. (The
\* read of current and the entry of the select are one step: between them
\* the caller has no effect on anyone, and its timer starts at the select.)
WaitCall(w) ==
    /\ wpc[w] = "idle"
    /\ IF current # Nil
       THEN /\ wpc' = [wpc EXCEPT ![w] = "returned"]
            /\ wres' = [wres EXCEPT ![w] = "ok"]
            /\ UNCHANGED wtimer
       ELSE /\ \E timeout \in 0..MaxTimeout :
                 /\ now + timeout <= MaxTime
                 /\ wtimer' = [wtimer EXCEPT ![w] = timeout]
            /\ wpc' = [wpc EXCEPT ![w] = "select"]
            /\ UNCHANGED wres
    /\ UNCHANGED <<now, config, storeVars, cancelled, taskVars>>

\* WaitForInitialValue, lines 163-164: case <-time.After(timeout)
WaitTimeout(w) ==
    /\ wpc[w] = "select"
    /\ TimedOut(w)
    /\ wpc' = [wpc EXCEPT ![w] = "returned"]
    /\ wres' = [wres EXCEPT ![w] = "timeout"]
    /\ wtimer' = [wtimer EXCEPT ![w] = 0]
    /\ UNCHANGED <<now, config, storeVars, cancelled, taskVars>>

\* lines 239 / 246 with lines 165-169: the task's send meets a caller's
\* receive on the unbuffered channel
Handoff(w) ==
    /\ pc \in {"sendStored", "sendInit"}
    /\ wpc[w] = "select"
    /\ wpc' = [wpc EXCEPT ![w] = "returned"]
    /\ wres' = [wres EXCEPT ![w] = IF sendVal = "err" THEN "initerr" ELSE "ok"]
    /\ wtimer' = [wtimer EXCEPT ![w] = 0]
    /\ sends' = sends + 1
    /\ sentErrFrom' = IF sendVal = "err" THEN pc ELSE sentErrFrom
    /\ pc' = IF pc = "sendStored" THEN "check" ELSE "close"
    /\ sendVal' = "none"
    /\ Quiet
    /\ UNCHANGED <<now, config, storeVars, cancelled, current, refreshAt, closed, timerAt, calls,
                   inflight, firstOutcome, acquired, lastErr, lastFailAt, initFailAt>>

\* lines 165-169 on the closed channel: the receive yields the zero value, nil
RecvClosed(w) ==
    /\ closed
    /\ wpc[w] = "select"
    /\ wpc' = [wpc EXCEPT ![w] = "returned"]
    /\ wres' = [wres EXCEPT ![w] = "ok"]
    /\ wtimer' = [wtimer EXCEPT ![w] = 0]
    /\ UNCHANGED <<now, config, storeVars, cancelled, taskVars>>

\* ------------------------------------------------------------------ Next
Next ==
    \/ Tick
    \/ Stop
    \/ Start
    \/ GetFail
    \/ GetOk
    \/ CheckCurrent
    \/ InitRefreshReturn
    \/ CloseInit
    \/ StopTask
    \/ TimerFire
    \/ SteadyRefreshReturn
    \/ \E v \in 1..MaxCalls : PutBegin(v)
    \/ \E v \in 1..MaxCalls : PutOk(v)
    \/ \E v \in 1..MaxCalls : PutFail(v)
    \/ \E w \in Waiters : WaitCall(w)
    \/ \E w \in Waiters : WaitTimeout(w)
    \/ \E w \in Waiters : Handoff(w)
    \/ \E w \in Waiters : RecvClosed(w)

Spec == Init /\ [][Next]_vars

\* The background task, the store goroutines and the clock make progress;
\* the collaborators' calls in flight return; a blocked send is received by
\* a caller that waits for it. Whether and when WaitForInitialValue and
\* Stop are called is free.
TaskStep ==
    \/ Start
    \/ GetFail
    \/ GetOk
    \/ CheckCurrent
    \/ InitRefreshReturn
    \/ CloseInit
    \/ StopTask
    \/ SteadyRefreshReturn

\* a store goroutine's next step: its storage.Put begins, or returns
StoreStep == \E v \in 1..MaxCalls : PutBegin(v) \/ PutOk(v) \/ PutFail(v)

\* a send of the task blocked on initializationResult meets a receiver
\* that is waiting in its select
SendStep == \E w \in Waiters : Handoff(w)

FairSpec ==
    /\ Spec
    /\ WF_vars(Tick)
    /\ WF_vars(TaskStep)
    /\ WF_vars(SendStep)
    /\ WF_vars(StoreStep)

\* The clock and the callers' goroutines make progress; nothing is assumed
\* of the background task or of the refresh function.
WaiterStep(w) == WaitTimeout(w)

\* The steps that a caller of WaitForInitialValue can be affected by: all
\* but those of the store goroutines, which read and write nothing but
\* their own state and the storage.
WaitNext ==
    \/ Tick
    \/ Stop
    \/ Start
    \/ GetFail
    \/ GetOk
    \/ CheckCurrent
    \/ InitRefreshReturn
    \/ CloseInit
    \/ StopTask
    \/ TimerFire
    \/ SteadyRefreshReturn
    \/ \E w \in Waiters : WaitCall(w)
    \/ \E w \in Waiters : WaitTimeout(w)
    \/ \E w \in Waiters : Handoff(w)
    \/ \E w \in Waiters : RecvClosed(w)

WaitSpec ==
    /\ Init
    /\ [][WaitNext]_vars
    /\ WF_vars(Tick)
    /\ \A w \in Waiters : WF_vars(WaiterStep(w))

\* ------------------------------------------------ the strategies package
\* Instants and durations are whole ticks, TicksPerSecond of them to a
\* second; an instant is counted from the Unix epoch. float64 seconds are
\* kept as exact fractions: a comparison of two of them is cross-multiplied.

\* float64 -> int64 conversion of a/b (b > 0): the fraction is discarded
Trunc(a, b) == IF a >= 0 THEN a \div b ELSE -((-a) \div b)

\* time.Duration(seconds) * time.Second, for seconds = a/(b*TicksPerSecond):
\* the conversion keeps whole seconds only; the result is in ticks
WholeSeconds(a, b) == Trunc(a, b * TicksPerSecond) * TicksPerSecond

\* t.After(u), t.Before(u)
After(t, u) == t > u
Before(t, u) == t < u

\* defaultRefreshStrategyFunc, src/unnamed/part_000 lines 273-290
defaultRefreshStrategyFunc(n, issuedAt, expiresAt) ==
    IF After(n, expiresAt) THEN n
    ELSE IF 3 * (n - issuedAt) > 2 * (expiresAt - issuedAt) THEN n
    ELSE issuedAt + WholeSeconds(2 * (expiresAt - issuedAt), 3)

\* factors are hundredths: 0.01 and 0.99 of lines 66-67, and 1.00
Percent == 100
LowerBound == 1
UpperBound == 99

\* clamp, src/storage.go lines 74-82
clamp(value, lowerBound, upperBound) ==
    IF value < lowerBound THEN lowerBound
    ELSE IF value > upperBound THEN upperBound
    ELSE value

\* NewRandomWithinLifetimeWindow, src/storage.go lines 65-72: <<min, max>>
NewRandomWithinLifetimeWindow(min, max) ==
    LET lo == clamp(min, LowerBound, UpperBound)
        hi == clamp(max, LowerBound, UpperBound)
    IN  IF lo > hi THEN <<hi, hi>> ELSE <<lo, hi>>

\* strategyRandomWithinLifetimeWindow.GetRefreshAt, src/storage.go lines
\* 85-106, when rand.Float64() yields k/RandSteps; the factor is
\* f/(Percent*RandSteps)
strategyRandomWithinLifetimeWindow(w, k, n, issuedAt, expiresAt) ==
    LET f == RandSteps * w[1] + k * (w[2] - w[1])
        d == Percent * RandSteps
    IN  IF After(n, expiresAt) THEN n
        ELSE IF (n - issuedAt) * d > (expiresAt - issuedAt) * f THEN n
        ELSE issuedAt + WholeSeconds((expiresAt - issuedAt) * f, d)

\* strategyStaticLifetimeLeft.GetRefreshAt without the comparison with now
strategyStaticLifetimeLeftUnchecked(lifetimeLeft, n, expiresAt) ==
    expiresAt - lifetimeLeft

\* strategyStaticLifetimeLeft.GetRefreshAt, src/strategies/scheduled.go
\* lines 55-64
strategyStaticLifetimeLeft(lifetimeLeft, n, expiresAt) ==
    LET refreshIfAfterTime == expiresAt - lifetimeLeft
    IN  IF Before(n, refreshIfAfterTime) THEN refreshIfAfterTime ELSE n

\* strategyStaticLifetimeSpent.GetRefreshAt, lines 85-94
strategyStaticLifetimeSpent(lifetimeSpent, n, issuedAt) ==
    LET refreshIfAfterTime == issuedAt + lifetimeSpent
    IN  IF Before(n, refreshIfAfterTime) THEN refreshIfAfterTime ELSE n

\* strategyStaticTime.GetRefreshAt, src/unnamed/part_001 lines 20-22
strategyStaticTime(time, n) == time

\* the signed word that counts seconds: wrap-around addition
Modulus == 2 ^ WordBits
MaxWord == (Modulus \div 2) - 1
WrapAdd(a, b) == ((a + b + Modulus \div 2) % Modulus) - Modulus \div 2

\* maxTime = time.Unix(1<<63-1, 0), src/strategies/scheduled.go line 10:
\* time.Unix adds unixToInternal to the seconds in the word; the instant is
\* given here from the Unix epoch like every other, in ticks
maxTime == (WrapAdd(MaxWord, unixToInternal) - unixToInternal) * TicksPerSecond

\* the last instant the word can hold
LastInstant == (MaxWord - unixToInternal) * TicksPerSecond

\* strategyScheduled.GetRefreshAt, lines 25-34: the first timestamp of the
\* list, in the order given to NewScheduled, that is after now
RECURSIVE strategyScheduled(_, _)
strategyScheduled(times, n) ==
    IF times = <<>> THEN maxTime
    ELSE IF After(Head(times), n) THEN Head(times)
    ELSE strategyScheduled(Tail(times), n)

\* time.Until(t) at the instant n: t.Sub(n), which saturates
Until(t, n) ==
    clamp(t - n, -(MaxWord + 1) * TicksPerSecond, MaxWord * TicksPerSecond)

\* ---- one call of GetRefreshAt, on inputs drawn at the start
Instants == 0..MaxInstant
Durations == (-MaxStatic)..MaxStatic
FactorInputs == {LowerBound - 1, LowerBound, (LowerBound + UpperBound) \div 2,
                 UpperBound, UpperBound + 1}
\* timestamps given to NewScheduled: whole seconds, in any order
Schedules ==
    UNION {[1..len -> {t \in Instants : t % TicksPerSecond = 0}] : len \in 0..MaxListLen}

StrategyInit ==
    /\ InitRefresher
    /\ ~hasStorage
    /\ retryDelay = MaxRetryDelay
    /\ \E n \in Instants, i \in Instants, e \in Instants :
           call = [NoCall EXCEPT !.now = n, !.issuedAt = i, !.expiresAt = e]

Returns(variant, cfg, result) ==
    /\ call.variant = "none"
    /\ call' = [call EXCEPT !.variant = variant, !.cfg = cfg, !.result = result]
    /\ UNCHANGED refresherVars

CallDefault ==
    Returns("default", <<>>,
            defaultRefreshStrategyFunc(call.now, call.issuedAt, call.expiresAt))

CallRandomWithinLifetimeWindow ==
    \E min \in FactorInputs, max \in FactorInputs, k \in 0..(RandSteps - 1) :
        LET w == NewRandomWithinLifetimeWindow(min, max)
        IN  Returns("random", w,
                    strategyRandomWithinLifetimeWindow(w, k, call.now, call.issuedAt,
                                                       call.expiresAt))

CallStaticLifetimeLeft ==
    \E d \in Durations :
        Returns("lifetimeLeft", d,
                strategyStaticLifetimeLeft(d, call.now, call.expiresAt))

CallStaticLifetimeSpent ==
    \E d \in Durations :
        Returns("lifetimeSpent", d,
                strategyStaticLifetimeSpent(d, call.now, call.issuedAt))

CallStaticTime ==
    \E t \in Instants : Returns("staticTime", t, strategyStaticTime(t, call.now))

CallScheduled ==
    \E times \in Schedules :
        Returns("scheduled", times, strategyScheduled(times, call.now))

StrategyNext ==
    \/ CallDefault
    \/ CallRandomWithinLifetimeWindow
    \/ CallStaticLifetimeLeft
    \/ CallStaticLifetimeSpent
    \/ CallStaticTime
    \/ CallScheduled

StrategySpec == StrategyInit /\ [][StrategyNext]_vars

\* ---------------------------------------------------------------- claims

\* C1: every call of WaitForInitialValue that does not time out returns the
\* outcome of the first acquisition attempt: nil exactly when it succeeded.
C1_SameOutcome ==
    \A w \in Waiters :
        wres[w] \in {"ok", "initerr"} =>
            /\ firstOutcome # "none"
            /\ (wres[w] = "ok") <=> (firstOutcome = "ok")

\* C2: whenever a call of WaitForInitialValue has returned nil, GetCurrent()
\* is not nil.
C2_NilMeansValue ==
    \A w \in Waiters : wres[w] = "ok" => current # Nil

\* C3: every call of WaitForInitialValue that entered its select
\* returns, by the timeout error when nothing was delivered to it before its
\* timer fired (nothing is assumed of the refresh function, which may block
\* forever), and a call that returned the timeout error keeps that result
\* whatever the task does afterwards.
C3_WaitReturns ==
    /\ \A w \in Waiters : (wpc[w] = "select") ~> (wpc[w] = "returned")
    /\ [][\A w \in Waiters :
            /\ (wpc[w] = "select" /\ wpc'[w] = "returned" /\ sends' = sends /\ ~closed)
                  => (wres'[w] = "timeout" /\ TimedOut(w))
            /\ wres[w] = "timeout" => wres'[w] = "timeout"]_vars

\* C3 witness: a caller got the timeout error while the refresh function was
\* still running, and the initialization succeeded afterwards.
C3_Witness ==
    \E w \in Waiters :
        /\ wres[w] = "timeout"
        /\ firstOutcome = "ok"
        /\ sends = 1
        /\ current # Nil

\* C4: GetCurrent() is nil exactly before the first successful acquisition,
\* and once it holds a value it never reverts to nil.
C4_NeverReverts ==
    /\ [](current = Nil <=> ~acquired)
    /\ [][current # Nil => current' # Nil]_vars

\* C4 witness: a value was acquired, a later refresh failed and Stop was
\* called, and the value is still there.
C4_Witness ==
    /\ acquired
    /\ lastErr
    /\ cancelled
    /\ pc = "done"
    /\ current # Nil

\* a step in which a call of the refresh function returns an error
RefreshFailed == pc \in {"refresh0", "refreshing"} /\ pc' # pc /\ lastErr'

\* C5: a call of the refresh function that returns an error (initial or
\* steady-state) leaves current and refreshAt exactly as they were.
C5_ErrorKeepsState ==
    [][RefreshFailed => (current' = current /\ refreshAt' = refreshAt)]_vars

\* C5 witness: a steady-state refresh failed after a value with a schedule
\* had been acquired.
C5_Witness ==
    /\ lastFailAt # NoTime
    /\ current # Nil
    /\ refreshAt > 0
    /\ pc = "loop"

\* C6: after a steady-state refresh failed at time f the next call of the
\* refresh function begins no earlier than f + retryDelay (the timer is
\* rearmed for that instant), the failure callback is started by the failed
\* attempt and by nothing else, and the strategy is not consulted by it.
C6_RetryDelay ==
    /\ [][(pc = "loop" /\ pc' = "refreshing" /\ lastFailAt # NoTime)
             => now >= lastFailAt + retryDelay]_vars
    /\ [][(pc = "refreshing" /\ RefreshFailed)
             => (/\ "onRefreshFailure" \in spawned'
                 /\ ~consulted'
                 /\ timerAt' = now + retryDelay)]_vars
    /\ [][("onRefreshFailure" \in spawned' /\ spawned' # spawned)
             => (pc = "refreshing" /\ RefreshFailed)]_vars

\* C6 witness: a steady-state refresh failed and the retry has begun.
C6_Witness ==
    /\ pc = "refreshing"
    /\ lastFailAt # NoTime
    /\ now >= lastFailAt + retryDelay

\* C7: while the task waits in its steady-state loop, refreshAt is the
\* instant the refresh timer is armed for (both being already due counts as
\* agreeing), and after a failed refresh that instant is the failure time
\* plus retryDelay.
C7_RefreshAtIsTimer ==
    pc = "loop" =>
        /\ \/ refreshAt = timerAt
           \/ (refreshAt <= now /\ timerAt <= now)
        /\ lastFailAt # NoTime => refreshAt = lastFailAt + retryDelay

\* C8: at most one call of the refresh function is in flight, and current
\* and refreshAt change only in a step of the background task in which a
\* call it made (storage.Get or the refresh function) returns.
C8_SingleRefresh ==
    /\ [](inflight <= 1)
    /\ [][(current' # current \/ refreshAt' # refreshAt)
             => (pc \in {"get", "refresh0", "refreshing"} /\ pc' # pc)]_vars

\* C8 witness: a steady-state call of the refresh function is in flight
\* after an earlier one completed, with the timer still due.
C8_Witness ==
    /\ pc = "refreshing"
    /\ inflight = 1
    /\ calls >= 2
    /\ now >= timerAt

C10_StopTerminates == cancelled ~> (pc = "done")

\* a step in which a steady-state call of the refresh function returns a value
SteadySuccess == pc = "refreshing" /\ pc' = "loop" /\ ~lastErr'

\* C11: a successful steady-state refresh producing v starts onRefreshSuccess
\* and store with that v, and with storage configured store's storage.Put is
\* called with v, once; no other step starts them, a failed refresh least of all.
C11_SuccessCallbacks ==
    /\ [][SteadySuccess =>
            /\ current' = calls
            /\ spawned' = {"onRefreshSuccess", "store"}
            /\ spawnedArg' = current'
            /\ current' \notin (pendingStores \cup puttingStores)
            /\ pendingStores' = IF hasStorage THEN pendingStores \cup {current'}
                                              ELSE pendingStores]_vars
    /\ [][~SteadySuccess =>
            /\ pendingStores' \subseteq pendingStores
            /\ spawned' # spawned => spawned' \cap {"onRefreshSuccess", "store"} = {}]_vars
    /\ [][\A v \in puttingStores' \ puttingStores :
            v \in pendingStores /\ v \notin pendingStores']_vars

\* C11 witness: storage.Put is running with the value of the refresh that
\* just succeeded, the one onRefreshSuccess was started with.
C11_Witness ==
    /\ hasStorage
    /\ spawned = {"onRefreshSuccess", "store"}
    /\ spawnedArg = current
    /\ current \in puttingStores

\* C12: a value read from storage is adopted (current and refreshAt set, the
\* refresh function not called) exactly when now is strictly before the
\* strategy's result for it; otherwise it never becomes current and the
\* refresh function is called for the initial value.
C12_AdoptIffFresh ==
    /\ [][(pc = "get" /\ consulted') =>
            IF now < lastStrategy'
            THEN /\ current' = PriorValue
                 /\ refreshAt' = lastStrategy'
                 /\ pc' = "sendStored"
                 /\ calls' = calls
            ELSE /\ current' = Nil
                 /\ refreshAt' = refreshAt
                 /\ pc' = "check"]_vars
    /\ [][(current' = PriorValue /\ current # PriorValue)
             => (pc = "get" /\ now < lastStrategy')]_vars
    /\ [][(pc = "check" /\ pc' # pc) =>
            IF current = Nil
            THEN pc' = "refresh0" /\ calls' = calls + 1
            ELSE pc' = "close" /\ calls' = calls]_vars

\* C12 witness: a stored value whose refresh is due exactly now was discarded.
C12_Witness ==
    /\ pc = "check"
    /\ consulted
    /\ lastStrategy = now
    /\ current = Nil

\* a step in which a storage.Put returns an error
PutFailed ==
    /\ puttingStores' # puttingStores
    /\ puttingStores' \subseteq puttingStores
    /\ stored' = stored

\* C13: a storage error changes nothing in memory and stops nothing: a
\* failed storage.Get starts onStorageReadFailure and the task goes on to
\* call the refresh function; a failed storage.Put starts
\* onStorageWriteFailure and leaves current, refreshAt, the timer and the
\* task where they were.
C13_StorageErrorsContained ==
    /\ [][(pc = "get" /\ pc' # pc /\ ~consulted') =>
            /\ "onStorageReadFailure" \in spawned'
            /\ pc' = "check"
            /\ current' = Nil
            /\ refreshAt' = refreshAt]_vars
    /\ [][(pc = "check" /\ "onStorageReadFailure" \in spawned /\ pc' # pc)
             => pc' = "refresh0"]_vars
    /\ [][PutFailed =>
            /\ "onStorageWriteFailure" \in storeSpawned'
            /\ UNCHANGED <<current, refreshAt, timerAt, pc, cancelled>>]_vars

\* C13 witness: a storage.Put failed while the task waits in its loop with
\* the value it had refreshed.
C13_Witness ==
    /\ storeSpawned = {"onStorageWriteFailure"}
    /\ pc = "loop"
    /\ current # Nil
    /\ stored = PriorValue

\* C14: whatever the strategy and its configuration, a call of GetRefreshAt
\* made after the Refreshable has expired returns an instant that is not
\* after now.
C14_ExpiredMeansNow ==
    (call.variant # "none" /\ call.now > call.expiresAt) => call.result <= call.now

\* C14, as the strategies behave: after expiry the default strategy, the
\* random-within-window strategy and the static lifetime-left strategy with
\* a lifetimeLeft that is not negative return now; the static lifetime-spent
\* strategy returns now once issuedAt + lifetimeSpent is not after now, and
\* that instant before; the static time strategy returns its configured
\* instant, and the scheduled strategy a configured instant after now or
\* maxTime, both whether or not the value has expired.
C14_ExpiredByVariant ==
    (call.now > call.expiresAt) =>
        /\ call.variant \in {"default", "random"} => call.result = call.now
        /\ (call.variant = "lifetimeLeft" /\ call.cfg >= 0) => call.result = call.now
        /\ call.variant = "lifetimeSpent" =>
               call.result = IF call.issuedAt + call.cfg <= call.now
                             THEN call.now ELSE call.issuedAt + call.cfg
        /\ call.variant = "staticTime" => call.result = call.cfg
        /\ call.variant = "scheduled" =>
               \/ call.result = maxTime
               \/ /\ call.result > call.now
                  /\ \E j \in 1..Len(call.cfg) : call.cfg[j] = call.result

\* C14 witness: the static lifetime-left strategy, configured with a positive
\* lifetimeLeft, was called after expiry and returned now.
C14_Witness ==
    /\ call.variant = "lifetimeLeft"
    /\ call.cfg > 0
    /\ call.now > call.expiresAt
    /\ call.result = call.now

\* C15: for issuedAt < expiresAt the default strategy returns an instant in
\* [issuedAt, expiresAt], and exactly issuedAt + 2/3 of the lifetime when
\* now is before that point.
C15_TwoThirdsPoint ==
    (call.variant = "default" /\ call.issuedAt < call.expiresAt) =>
        /\ call.issuedAt <= call.result
        /\ call.result <= call.expiresAt
        /\ 3 * (call.now - call.issuedAt) < 2 * (call.expiresAt - call.issuedAt) =>
               3 * (call.result - call.issuedAt) = 2 * (call.expiresAt - call.issuedAt)

\* C16: when some timestamp given to NewScheduled is after now, GetRefreshAt
\* returns the earliest of those that are.
C16_ClosestFuture ==
    call.variant = "scheduled" =>
        LET future == {call.cfg[j] : j \in {j \in 1..Len(call.cfg) : call.cfg[j] > call.now}}
        IN  future # {} =>
                /\ call.result \in future
                /\ \A t \in future : call.result <= t

\* C17: when no configured timestamp is after now, the scheduled strategy
\* returns maxTime, which is the last representable instant, lies after now,
\* and is a positive duration away.
C17_SentinelIsNever ==
    (/\ call.variant = "scheduled"
     /\ \A j \in 1..Len(call.cfg) : call.cfg[j] <= call.now) =>
        /\ call.result = maxTime
        /\ maxTime = LastInstant
        /\ After(call.result, call.now)
        /\ Until(call.result, call.now) > 0

\* C18: a successful storage.Get starts onStorageReadSuccess, and a
\* successful storage.Put starts onStorageWriteSuccess.
C18_StorageSuccessCallbacks ==
    /\ [][(pc = "get" /\ consulted') => "onStorageReadSuccess" \in spawned']_vars
    /\ [][stored' # stored => "onStorageWriteSuccess" \in storeSpawned']_vars

\* C19: the background task leaves the initialization phase and enters the
\* steady-state loop, whatever the callers of WaitForInitialValue do.
C19_ReachesLoop == <>(pc \in {"loop", "refreshing", "done"})

\* C20: at most one storage.Get or storage.Put is in progress, Puts begin in
\* the order of the refreshes that produced their values, and they complete
\* in that order (what the storage holds is never newer than a value still
\* to be written).
C20_StorageSerialized ==
    /\ Cardinality(puttingStores) + (IF pc = "get" THEN 1 ELSE 0) <= 1
    /\ \A v \in puttingStores : \A u \in pendingStores : v < u
    /\ stored \notin {Nil, PriorValue} =>
          \A u \in pendingStores \cup puttingStores : stored < u

\* C21: current and refreshAt are replaced together: while current is absent
\* refreshAt is the instant of construction, and every step that changes
\* either of them installs a new value together with the strategy's result
\* computed for it in that step, so that between steps (the write lock free)
\* refreshAt is the schedule of the value in current.
C21_PairReplacedTogether ==
    /\ [](current = Nil => refreshAt = 0)
    /\ [][(current' # current \/ refreshAt' # refreshAt) =>
            /\ current' \notin {Nil, current}
            /\ lastStrategy' # NoTime
            /\ refreshAt' = lastStrategy']_vars

\* C21 witness: a value adopted from storage has been replaced by a
\* steady-state refresh, under the schedule computed in that step.
C21_Witness ==
    /\ hasStorage
    /\ firstOutcome = "ok"
    /\ calls = 1
    /\ current = calls
    /\ pc = "loop"
    /\ refreshAt = lastStrategy
    /\ refreshAt > 0

\* C22: once Stop has returned, current and refreshAt keep their values and
\* no call of the refresh function or of storage.Put begins.
C22_StopFreezes ==
    [][cancelled =>
          /\ current' = current
          /\ refreshAt' = refreshAt
          /\ calls' = calls
          /\ puttingStores' \subseteq puttingStores]_vars

\* C23: after a call of the refresh function failed at time f, in the
\* steady state or as the initial acquisition, the next call begins no
\* earlier than f + retryDelay.
C23_RetryAfterAnyFailure ==
    [][(pc = "loop" /\ pc' = "refreshing") =>
          /\ lastFailAt # NoTime => now >= lastFailAt + retryDelay
          /\ initFailAt # NoTime => now >= initFailAt + retryDelay]_vars

\* C24: with storage configured, every value the refresh function returns,
\* the initial one included, is handed to a store goroutine for storage.Put
\* by the step in which the call returns.
C24_EveryValueStored ==
    [][(/\ hasStorage
        /\ pc \in {"refresh0", "refreshing"}
        /\ pc' # pc
        /\ ~lastErr') => current' \in pendingStores']_vars

====
